---- MODULE Spec2Model ----
(***************************************************************************)
(* Smart_Parking: the admission workflow, the slot-allocation cascade and  *)
(* the ledger of the two deployments found in the repository:              *)
(*   - the "root" deployment      src/agentic.py + src/sqlite_helper.py    *)
(*   - the "backend" deployment   src/backend/agentic.py +                 *)
(*                                src/backend/sqlite_helper.py             *)
(* Each deployment has its own inventory document (mock_digital_twin.json) *)
(* and its own database, so each is a specification of its own over the    *)
(* same variables.                                                         *)
(*                                                                         *)
(* Conventions.  Python's None is the number 0 wherever the code only      *)
(* tests truthiness (`if slot_id`, `if not slot`, `if assigned_slot`,      *)
(* `booking.get("slot_id")`): slot ids are 1..MaxSlots, and 0 is falsy     *)
(* exactly as None is.  Prices are integers in cents (round(price, 2)).    *)
(***************************************************************************)
EXTENDS Integers, Sequences, FiniteSets, TLC

VARIABLES
    twin,       \* dt["slots"] of mock_digital_twin.json: a sequence of slot records
    bookings,   \* table bookings, keyed by plate
    entries,    \* table entries, append-only
    vehicles,   \* table vehicles (allow/deny records), root deployment only
    langraph,   \* which of LANGRAPH_API_KEY, LANGRAPH_API_URL are set (root deployment)
    proc        \* one record per running request: its position and its locals

vars == <<twin, bookings, entries, vehicles, langraph, proc>>

-----------------------------------------------------------------------------
(* Bounds of the model *)

\* Number of requests that may run at the same time (Flask serves each
\* request on a thread of its own).
NProcs == 2

\* Largest slot id of the inventory documents the workflows run on.
MaxSlots == 3

\* Number of slot records of the documents the allocation functions are
\* applied to exhaustively.
DocLen == 2

\* Largest slot total and largest entry count the pricing functions are
\* applied to (entries may outnumber slots).
MaxTotal == 10
MaxOccupied == 12

\* Longest text a plate reader or a payload delivers, in characters.
MaxText == 5

\* Largest number of frames of a video that are handed to the plate reader.
MaxFrames == 4

Procs == 1 .. NProcs
SlotIds == 1 .. MaxSlots

\* An id no slot of the inventory has (an oracle may answer anything).
UnknownId == MaxSlots + 1

Sizes == {"small", "medium", "large"}
Distances == {5, 10}

\* Payload plates as they arrive; upper() is applied by the code.
PayloadPlates == {"abc123", "XYZ999"}
Plates == {"ABC123", "XYZ999"}
Models == {"sedan"}

None == 0
NoBooking == [status |-> "none"]
NoRecord == [allowed |-> -1, note |-> "none"]

-----------------------------------------------------------------------------
(* Program constants *)

BASE_PRICE == 50
\* ELASTICITY = 1.0 (root) and 1.2 (backend), in hundredths
ELASTICITY == 100
B_ELASTICITY == 120

-----------------------------------------------------------------------------
(* Helpers on sequences *)

RECURSIVE FilterSeq(_, _)
\* [x for x in s if Keep[x]] with Keep given as the set of kept elements
FilterSeq(s, keep) ==
    IF s = <<>> THEN <<>>
    ELSE IF Head(s) \in keep THEN <<Head(s)>> \o FilterSeq(Tail(s), keep)
         ELSE FilterSeq(Tail(s), keep)

Range(s) == {s[i] : i \in DOMAIN s}

\* str.upper() on the plates of the model
upper(plate) ==
    CASE plate = "abc123" -> "ABC123"
      [] OTHER -> plate

-----------------------------------------------------------------------------
(* Slot eligibility *)

\* size_rank.get(size, 1) of local_slot_allocate
size_rank(size) ==
    CASE size = "small" -> 1
      [] size = "medium" -> 2
      [] size = "large" -> 3
      [] OTHER -> 1

\* local_slot_allocate with the status test of its filter left out
RankEligible_AnyStatus(s, size) ==
    size_rank(s.size) >= size_rank(size)

\* local_slot_allocate with the rank test of its filter made an equality
RankEligible_SameSize(s, size) ==
    s.status = "free" /\ size_rank(s.size) = size_rank(size)

\* the filter of local_slot_allocate (hierarchical)
RankEligible(s, size) ==
    s.status = "free" /\ size_rank(s.size) >= size_rank(size)

size_compatible_strict(slot_size, vehicle_size) == slot_size = vehicle_size

\* the filter of llm_select_slot (strict)
StrictEligible(s, size) ==
    s.status = "free" /\ size_compatible_strict(s.size, size)

-----------------------------------------------------------------------------
(* local_slot_allocate: candidates.sort(key=(distance_m, id)); candidates[0] *)

KeyLess(a, b) ==
    \/ a.distance < b.distance
    \/ a.distance = b.distance /\ a.id < b.id

RECURSIVE Insert(_, _)
\* stable insertion of x into the sorted sequence s
Insert(x, s) ==
    IF s = <<>> THEN <<x>>
    ELSE IF KeyLess(x, Head(s)) THEN <<x>> \o s
         ELSE <<Head(s)>> \o Insert(x, Tail(s))

RECURSIVE SortCandidates(_)
SortCandidates(s) ==
    IF s = <<>> THEN <<>>
    ELSE Insert(s[Len(s)], SortCandidates(SubSeq(s, 1, Len(s) - 1)))

RootCandidates(doc, size) ==
    FilterSeq(doc, {s \in Range(doc) : RankEligible(s, size)})

\* the id local_slot_allocate returns for the document it loaded (None: no candidate)
LocalChoice(doc, size) ==
    LET candidates == SortCandidates(RootCandidates(doc, size))
    IN IF candidates = <<>> THEN None ELSE candidates[1].id

RECURSIVE FirstIndexOf(_, _, _)
\* index of the first record of doc, from i on, whose id is id (0: none)
FirstIndexOf(doc, id, i) ==
    IF i > Len(doc) THEN 0
    ELSE IF doc[i].id = id THEN i
         ELSE FirstIndexOf(doc, id, i + 1)

\* for s in dt["slots"]: if s["id"] == id: s["status"] = status; break
SetFirst(doc, id, status) ==
    LET i == FirstIndexOf(doc, id, 1)
    IN IF i = 0 THEN doc ELSE [doc EXCEPT ![i].status = status]

\* for s in dt["slots"]: if s["id"] == id: s["status"] = status   (no break)
SetAll(doc, id, status) ==
    [i \in DOMAIN doc |->
        IF doc[i].id = id THEN [doc[i] EXCEPT !.status = status] ELSE doc[i]]

-----------------------------------------------------------------------------
(* llm_select_slot: min(free, key=lambda s: s["distance"]) *)

RECURSIVE MinByDistance(_, _)
\* Python's min keeps the first element among those of least key
MinByDistance(best, rest) ==
    IF rest = <<>> THEN best
    ELSE IF Head(rest).distance < best.distance
         THEN MinByDistance(Head(rest), Tail(rest))
         ELSE MinByDistance(best, Tail(rest))

BackendFree(doc, size) ==
    FilterSeq(doc, {s \in Range(doc) : StrictEligible(s, size)})

\* the id of the closest-slot fallback of llm_select_slot (free is not empty)
FallbackChoice(free) == MinByDistance(Head(free), Tail(free)).id

-----------------------------------------------------------------------------
(* Pricing, in cents *)

\* round(num / den, 2 decimals) for a price already scaled to cents: the
\* nearest integer to num / den, ties to even (den > 0, num >= 0)
RoundDiv(num, den) ==
    LET q == num \div den
        r == num % den
    IN IF 2 * r < den THEN q
       ELSE IF 2 * r > den THEN q + 1
            ELSE IF q % 2 = 0 THEN q ELSE q + 1

\* dynamic_pricing_agent with delta = occupancy_ratio (the target left out)
SymmetricPrice_NoTarget(occupied, slotCount, base_price, elasticity) ==
    LET total_slots == IF slotCount = 0 THEN 1 ELSE slotCount
        occ == IF occupied > total_slots THEN total_slots ELSE occupied
    IN RoundDiv(100 * base_price * total_slots + base_price * elasticity * occ, total_slots)

\* dynamic_pricing_agent: the symmetric variant, ratio clamped to [0,1],
\* a price <= 0 replaced by base_price
SymmetricPrice(occupied, slotCount, base_price, elasticity) ==
    LET total_slots == IF slotCount = 0 THEN 1 ELSE slotCount
        occ == IF occupied < 0 THEN 0
               ELSE IF occupied > total_slots THEN total_slots ELSE occupied
        \* 100 * price = num / den
        num == 200 * base_price * total_slots
                 + base_price * elasticity * (2 * occ - total_slots)
        den == 2 * total_slots
    IN IF num <= 0 THEN 100 * base_price ELSE RoundDiv(num, den)

\* pricing with max(0, ratio - 0.5) replaced by ratio - 0.5
SurgePrice_Symmetric(occupied, slotCount, base_price, elasticity) ==
    LET total == IF slotCount = 0 THEN 1 ELSE slotCount
        num == 200 * base_price * total + base_price * elasticity * (2 * occupied - total)
    IN RoundDiv(num, 2 * total)

\* pricing: the non-negative-delta variant, ratio not clamped
SurgePrice(occupied, slotCount, base_price, elasticity) ==
    LET total == IF slotCount = 0 THEN 1 ELSE slotCount
        over == IF 2 * occupied > total THEN 2 * occupied - total ELSE 0
        num == 200 * base_price * total + base_price * elasticity * over
        den == 2 * total
    IN RoundDiv(num, den)

-----------------------------------------------------------------------------
(* The ledger *)

\* get_booking_by_plate
get_booking_by_plate(plate) == bookings[upper(plate)]

\* root create_booking: INSERT OR REPLACE ... status 'pending'
create_booking(plate, model, size, slot_id) ==
    [bookings EXCEPT ![upper(plate)] =
        [model |-> model, size |-> size, slot_id |-> slot_id, status |-> "pending"]]

\* UPDATE bookings SET slot_id = ?, status = ? WHERE plate = ?  (no row: no change)
UpdateBooking(plate, slot_id, status) ==
    IF bookings[plate] = NoBooking THEN bookings
    ELSE [bookings EXCEPT ![plate].slot_id = slot_id, ![plate].status = status]

\* root mark_booking_assigned: status 'assigned'
mark_booking_assigned(plate, slot_id) == UpdateBooking(upper(plate), slot_id, "assigned")

\* backend mark_booking_assigned: status 'entered'
b_mark_booking_assigned(plate, slot_id) == UpdateBooking(plate, slot_id, "entered")

EntryRec(plate, model, size, slot_id, price) ==
    [plate |-> plate, model |-> model, size |-> size, slot_id |-> slot_id,
     price |-> price, exited |-> FALSE]

\* root mark_entry: an unconditional INSERT
mark_entry(plate, model, size, slot_id, price) ==
    Append(entries, EntryRec(upper(plate), model, size, slot_id, price))

\* SELECT id FROM entries WHERE plate = ? AND exited_at IS NULL
OpenEntries(plate) == {i \in DOMAIN entries : entries[i].plate = plate /\ ~entries[i].exited}

\* root get_occupancy_counts()["entries"]: SELECT COUNT(*) FROM entries
get_occupancy_counts == Len(entries)

\* backend get_occupancy_counts()["entries"]: entries with no exit recorded
b_get_occupancy_counts == Cardinality({i \in DOMAIN entries : ~entries[i].exited})

\* a vehicles row whose note column is NULL
NullNote == "<NULL>"

\* r[1] or "": a NULL note is answered as the empty text
NoteOrEmpty(note) == IF note = NullNote THEN "" ELSE note

security_agent_verify_DeniesOnlyZero(plate) ==
    LET r == vehicles[upper(plate)]
    IN IF r # NoRecord
       THEN [ok |-> (r.allowed # 0), note |-> NoteOrEmpty(r.note)]
       ELSE [ok |-> TRUE, note |-> "no record (default allow)"]

\* security_agent_verify: (allowed, note), default allow without a record
security_agent_verify(plate) ==
    LET r == vehicles[upper(plate)]
    IN IF r # NoRecord
       THEN [ok |-> (r.allowed = 1), note |-> NoteOrEmpty(r.note)]
       ELSE [ok |-> TRUE, note |-> "no record (default allow)"]

-----------------------------------------------------------------------------
(* Requests *)

\* The locals of a request before it starts.  writes: the stores this request
\* has written so far; tier: what produced its slot; fault: the collaborator
\* whose call raised in this request, if one did ("persist": a ledger
\* statement inside persist_node); no_plate: the payload had no plate; args:
\* the arguments of a function called on its own.
IdleProc ==
    [pc |-> "idle", plate |-> "", model |-> "", size |-> "", booking |-> NoBooking,
     sec_note |-> "", price |-> None, slot |-> None, cand |-> None, dt |-> <<>>,
     status |-> "", message |-> "", tier |-> "", writes |-> {}, fault |-> "",
     no_plate |-> FALSE, args |-> <<>>]

\* An oracle answers a slot id, an id no slot has, or nothing (None)
OracleAnswers == {None} \cup SlotIds \cup {UnknownId}

\* llm.invoke / json.loads raising
Raises == -1

At(p, label) == proc[p].pc = label

-----------------------------------------------------------------------------
(* Root deployment: src/agentic.py entry_recognition_agent, one action per   *)
(* access to a shared store                                                  *)

\* trigger_entry + vision_agent_process: plate upper-cased, model and size
\* taken from the payload
Start(p) ==
    /\ At(p, "idle")
    /\ \E plate \in PayloadPlates, model \in Models, size \in Sizes :
          proc' = [proc EXCEPT ![p] =
                      [IdleProc EXCEPT !.pc = "reservation", !.plate = upper(plate),
                                       !.model = model, !.size = size]]
    /\ UNCHANGED <<twin, bookings, entries, vehicles, langraph>>

\* dt["cnn_samples"][0]["detected"] of the inventory file, when it has one
CnnSamples == {[plate |-> "XYZ999", model |-> "sedan", size |-> "small"]}

\* entry_recognition_agent on a payload without a plate: vision_agent_process
\* loads the inventory file and answers its first sample; without a sample
\* the plate is None and the result is {status: error, "no plate detected"}
StartNoPlate(p) ==
    /\ At(p, "idle")
    /\ \/ proc' = [proc EXCEPT ![p] =
                      [IdleProc EXCEPT !.pc = "done", !.status = "error",
                                       !.message = "no plate detected",
                                       !.no_plate = TRUE]]
       \/ \E sample \in CnnSamples :
             proc' = [proc EXCEPT ![p] =
                         [IdleProc EXCEPT !.pc = "reservation", !.plate = sample.plate,
                                          !.model = sample.model, !.size = sample.size,
                                          !.no_plate = TRUE]]
    /\ UNCHANGED <<twin, bookings, entries, vehicles, langraph>>

\* booking = reservation_agent_check(plate)
Reservation(p) ==
    /\ At(p, "reservation")
    /\ proc' = [proc EXCEPT ![p].booking = get_booking_by_plate(proc[p].plate),
                            ![p].pc = "security"]
    /\ UNCHANGED <<twin, bookings, entries, vehicles, langraph>>

\* entry_recognition_agent without its `if not ok: return` after the check
SecurityOutcome_IgnoresDenial(q, v) ==
    [q EXCEPT !.pc = "pricing", !.sec_note = v.note]

\* what entry_recognition_agent does with the answer of security_agent_verify
SecurityOutcome(q, v) ==
    IF ~v.ok
    THEN [q EXCEPT !.pc = "done", !.status = "rejected", !.message = v.note,
                   !.sec_note = v.note]
    ELSE [q EXCEPT !.pc = "pricing", !.sec_note = v.note]

\* ok, sec_note = security_agent_verify(plate); if not ok: return rejected
Security(p) ==
    /\ At(p, "security")
    /\ proc' = [proc EXCEPT ![p] = SecurityOutcome(proc[p], security_agent_verify(proc[p].plate))]
    /\ UNCHANGED <<twin, bookings, entries, vehicles, langraph>>

\* price = dynamic_pricing_agent()
dynamic_pricing_agent ==
    SymmetricPrice(get_occupancy_counts, Len(twin), BASE_PRICE, ELASTICITY)

Pricing(p) ==
    /\ At(p, "pricing")
    /\ proc' = [proc EXCEPT ![p].price = dynamic_pricing_agent, ![p].pc = "resolve"]
    /\ UNCHANGED <<twin, bookings, entries, vehicles, langraph>>

\* the booking is one the workflow honours: status in ("pending", "assigned")
Honoured(b) == b # NoBooking /\ b.status \in {"pending", "assigned"}

\* lines 188-198: reuse the booking's slot, or enter slot_manager_allocate
\* (which loads the inventory document first)
Resolve(p) ==
    /\ At(p, "resolve")
    /\ LET q == proc[p] IN
       IF Honoured(q.booking) /\ q.booking.slot_id # None
       THEN /\ bookings' = mark_booking_assigned(q.plate, q.booking.slot_id)
            /\ proc' = [proc EXCEPT ![p].slot = q.booking.slot_id, ![p].tier = "booking",
                                    ![p].pc = "occupy",
                                    ![p].writes = q.writes \cup {"bookings"}]
            /\ UNCHANGED twin
       ELSE /\ proc' = [proc EXCEPT ![p].dt = twin, ![p].pc = "gemini"]
            /\ UNCHANGED <<twin, bookings>>
    /\ UNCHANGED <<entries, vehicles, langraph>>

\* the environment variables of the orchestration service
LangraphEnv == {"LANGRAPH_API_KEY", "LANGRAPH_API_URL"}

\* `if LANGRAPH_KEY and LANGRAPH_URL` with only the key looked at
LangraphConfigured_KeyOnly == "LANGRAPH_API_KEY" \in langraph

\* if LANGRAPH_KEY and LANGRAPH_URL:
LangraphConfigured == LangraphEnv \subseteq langraph

\* the candidate of a remote tier is accepted: some record of the loaded
\* document has this id and status free
TierAccepts(dt, slot_id) ==
    slot_id # None /\ \E i \in DOMAIN dt : dt[i].id = slot_id /\ dt[i].status = "free"

\* the document a remote tier saves: the loaded one with the candidate reserved
TierReserve(dt, slot_id) ==
    LET i == CHOOSE j \in DOMAIN dt :
                 /\ dt[j].id = slot_id /\ dt[j].status = "free"
                 /\ \A k \in 1 .. j - 1 : ~(dt[k].id = slot_id /\ dt[k].status = "free")
    IN [dt EXCEPT ![i].status = "reserved (incoming)"]

\* slot_manager_allocate, tier 1: gemini_select_slot on the loaded document
Gemini(p) ==
    /\ At(p, "gemini")
    /\ \E slot_id \in OracleAnswers :
          LET q == proc[p] IN
          IF TierAccepts(q.dt, slot_id)
          THEN /\ twin' = TierReserve(q.dt, slot_id)
               /\ proc' = [proc EXCEPT ![p].slot = slot_id, ![p].tier = "gemini",
                                       ![p].pc = "book", ![p].dt = <<>>,
                                       ![p].writes = q.writes \cup {"twin"}]
          ELSE /\ proc' = IF LangraphConfigured
                          THEN [proc EXCEPT ![p].pc = "langraph"]
                          ELSE [proc EXCEPT ![p].pc = "local", ![p].dt = <<>>]
               /\ UNCHANGED twin
    /\ UNCHANGED <<bookings, entries, vehicles, langraph>>

\* slot_manager_allocate, tier 2: call_langraph_orchestration, when configured
Langraph(p) ==
    /\ At(p, "langraph")
    /\ \E slot_id \in OracleAnswers :
          LET q == proc[p] IN
          IF TierAccepts(q.dt, slot_id)
          THEN /\ twin' = TierReserve(q.dt, slot_id)
               /\ proc' = [proc EXCEPT ![p].slot = slot_id, ![p].tier = "langraph",
                                       ![p].pc = "book", ![p].dt = <<>>,
                                       ![p].writes = q.writes \cup {"twin"}]
          ELSE /\ proc' = [proc EXCEPT ![p].pc = "local", ![p].dt = <<>>]
               /\ UNCHANGED twin
    /\ UNCHANGED <<bookings, entries, vehicles, langraph>>

\* local_slot_allocate: dt = load_digital_twin(); the candidates, sorted;
\* no candidate: return None
LocalLoad(p) ==
    /\ At(p, "local")
    /\ LET chosen == LocalChoice(twin, proc[p].size) IN
       IF chosen = None
       THEN proc' = [proc EXCEPT ![p].slot = None, ![p].tier = "local", ![p].dt = <<>>,
                                 ![p].pc = "book"]
       ELSE proc' = [proc EXCEPT ![p].dt = twin, ![p].cand = chosen, ![p].tier = "local",
                                 ![p].pc = "local_save"]
    /\ UNCHANGED <<twin, bookings, entries, vehicles, langraph>>

\* local_slot_allocate: reserve the chosen slot in the loaded document, save it
LocalSave(p) ==
    /\ At(p, "local_save")
    /\ LET q == proc[p] IN
       /\ twin' = SetFirst(q.dt, q.cand, "reserved (incoming)")
       /\ proc' = [proc EXCEPT ![p].slot = q.cand, ![p].dt = <<>>, ![p].pc = "book",
                               ![p].writes = q.writes \cup {"twin"}]
    /\ UNCHANGED <<bookings, entries, vehicles, langraph>>

\* lines 194-202: record the slot in the booking (a walk-in gets a booking
\* created), then return no_slot without a slot
Book(p) ==
    /\ At(p, "book")
    /\ LET q == proc[p]
           wrote == IF Honoured(q.booking) /\ q.slot = None THEN {} ELSE {"bookings"}
       IN /\ bookings' = IF Honoured(q.booking)
                         THEN IF q.slot # None
                              THEN mark_booking_assigned(q.plate, q.slot)
                              ELSE bookings
                         ELSE create_booking(q.plate, q.model, q.size, q.slot)
          /\ proc' = IF q.slot = None
                     THEN [proc EXCEPT ![p].pc = "done", ![p].status = "no_slot",
                                       ![p].message = "No suitable slot available",
                                       ![p].writes = q.writes \cup wrote]
                     ELSE [proc EXCEPT ![p].pc = "occupy",
                                       ![p].writes = q.writes \cup wrote]
    /\ UNCHANGED <<twin, entries, vehicles, langraph>>

\* lines 205-209, first half: dt = load_digital_twin()
OccupyLoad(p) ==
    /\ At(p, "occupy")
    /\ proc' = [proc EXCEPT ![p].dt = twin, ![p].pc = "occupy_save"]
    /\ UNCHANGED <<twin, bookings, entries, vehicles, langraph>>

\* lines 205-209, second half: mark the slot occupied, save_digital_twin(dt)
OccupySave(p) ==
    /\ At(p, "occupy_save")
    /\ twin' = SetAll(proc[p].dt, proc[p].slot, "occupied")
    /\ proc' = [proc EXCEPT ![p].dt = <<>>, ![p].pc = "entry",
                            ![p].writes = proc[p].writes \cup {"twin"}]
    /\ UNCHANGED <<bookings, entries, vehicles, langraph>>

\* mark_entry(plate, model, size, assigned_slot, price); return status ok
MarkEntry(p) ==
    /\ At(p, "entry")
    /\ LET q == proc[p] IN
       /\ entries' = mark_entry(q.plate, q.model, q.size, q.slot, q.price)
       /\ proc' = [proc EXCEPT ![p].pc = "done", ![p].status = "ok",
                               ![p].writes = q.writes \cup {"entries"}]
    /\ UNCHANGED <<twin, bookings, vehicles, langraph>>

\* The collaborators a step of the root workflow calls outside any try block:
\* the ledger (sqlite), the security record store (sqlite), the inventory
\* store (the JSON file).  The oracle and the orchestration are called inside
\* try/except in slot_manager_allocate: their failure is the answer None.
RootCalls(pc) ==
    CASE pc = "reservation" -> {"ledger"}
      [] pc = "security" -> {"security"}
      [] pc = "pricing" -> {"inventory", "ledger"}
      [] pc = "resolve" -> {"inventory", "ledger"}
      [] pc = "local" -> {"inventory"}
      [] pc = "local_save" -> {"inventory"}
      [] pc = "book" -> {"ledger"}
      [] pc = "occupy" -> {"inventory"}
      [] pc = "occupy_save" -> {"inventory"}
      [] pc = "entry" -> {"ledger"}
      [] OTHER -> {}

\* the status of a request that returned no result: the exception left
\* entry_recognition_agent
Escaped == "exception"

\* A collaborator call of the step request p is at raises.  The root
\* entry_recognition_agent has no except clause (security_agent_verify has a
\* try/finally only): the exception leaves it and takes the locals with it,
\* whatever was written stays.
Raise(p) ==
    /\ \E c \in RootCalls(proc[p].pc) :
          proc' = [proc EXCEPT ![p] =
                      [IdleProc EXCEPT !.pc = "done", !.plate = proc[p].plate,
                                       !.status = Escaped, !.fault = c]]
    /\ UNCHANGED <<twin, bookings, entries, vehicles, langraph>>

-----------------------------------------------------------------------------
(* Backend deployment: src/backend/agentic.py, the graph                     *)
(* reservation -> (router) -> slot -> pricing -> persist                     *)

\* entry_recognition_agent: initial_state = {"plate": plate}
BStart(p) ==
    /\ At(p, "idle")
    /\ \E plate \in Plates :
          proc' = [proc EXCEPT ![p] = [IdleProc EXCEPT !.pc = "b_reservation", !.plate = plate]]
    /\ UNCHANGED <<twin, bookings, entries, vehicles, langraph>>

\* entry_recognition_agent: if not plate: return {"status": "no_plate"}
BStartNoPlate(p) ==
    /\ At(p, "idle")
    /\ proc' = [proc EXCEPT ![p] =
                   [IdleProc EXCEPT !.pc = "done", !.status = "no_plate",
                                    !.no_plate = TRUE]]
    /\ UNCHANGED <<twin, bookings, entries, vehicles, langraph>>

\* a router that sends a request that ended in reservation back to it
router_BackToReservation(status) ==
    IF status \in {"no_booking", "no_slot", "error"} THEN "b_reservation" ELSE "b_slot"

\* router: the node after reservation, by the status it left
router(status) == IF status \in {"no_booking", "no_slot", "error"} THEN "done" ELSE "b_slot"

\* reservation_node
BReservation(p) ==
    /\ At(p, "b_reservation")
    /\ LET q == proc[p]
           booking == bookings[q.plate]
       IN IF booking = NoBooking
          THEN proc' = [proc EXCEPT ![p].status = "no_booking",
                                    ![p].message = "not pre-booked",
                                    ![p].pc = router("no_booking")]
          ELSE proc' = [proc EXCEPT ![p].status = "booked", ![p].booking = booking,
                                    ![p].model = booking.model, ![p].size = booking.size,
                                    ![p].pc = router("booked")]
    /\ UNCHANGED <<twin, bookings, entries, vehicles, langraph>>

\* what the llm call of llm_select_slot may give: an exception, or the
\* "slot_id" of its JSON answer
LlmAnswers == {Raises} \cup OracleAnswers

\* the node that follows slot_node in the graph: add_edge("slot", "pricing")
AfterSlot == "b_pricing"

\* llm_select_slot, up to the choice of slot_id: load the document, filter
\* the free slots of the vehicle's size, take the only one or ask the llm
BSlotLoad(p) ==
    /\ At(p, "b_slot")
    /\ LET q == proc[p]
           free == BackendFree(twin, q.size)
       IN IF free = <<>>
          THEN proc' = [proc EXCEPT ![p].status = "no_slot",
                                    ![p].message = "No slot available",
                                    ![p].pc = AfterSlot]
          ELSE IF Len(free) = 1
          THEN proc' = [proc EXCEPT ![p].dt = twin, ![p].cand = free[1].id,
                                    ![p].tier = "only", ![p].pc = "b_mark"]
          ELSE \E answer \in LlmAnswers :
                  proc' = IF answer = Raises
                          THEN [proc EXCEPT ![p].dt = twin, ![p].cand = FallbackChoice(free),
                                            ![p].tier = "fallback", ![p].pc = "b_mark"]
                          ELSE [proc EXCEPT ![p].dt = twin, ![p].cand = answer,
                                            ![p].tier = "llm", ![p].pc = "b_mark"]
    /\ UNCHANGED <<twin, bookings, entries, vehicles, langraph>>

\* llm_select_slot, "Mark slot as occupied": the first record with the id is
\* set occupied whatever its status and the loaded document is saved; no such
\* record: None, and slot_node reports no_slot
BSlotMark(p) ==
    /\ At(p, "b_mark")
    /\ LET q == proc[p] IN
       IF FirstIndexOf(q.dt, q.cand, 1) # 0
       THEN /\ twin' = SetFirst(q.dt, q.cand, "occupied")
            /\ proc' = [proc EXCEPT ![p].slot = q.cand, ![p].dt = <<>>, ![p].pc = AfterSlot,
                                    ![p].writes = q.writes \cup {"twin"}]
       ELSE /\ proc' = [proc EXCEPT ![p].slot = None, ![p].dt = <<>>,
                                    ![p].status = "no_slot",
                                    ![p].message = "No slot available",
                                    ![p].pc = AfterSlot]
            /\ UNCHANGED twin
    /\ UNCHANGED <<bookings, entries, vehicles, langraph>>

\* pricing()
pricing == SurgePrice(b_get_occupancy_counts, Len(twin), BASE_PRICE, B_ELASTICITY)

\* pricing_node
BPricing(p) ==
    /\ At(p, "b_pricing")
    /\ proc' = [proc EXCEPT ![p].price = pricing, ![p].pc = "b_persist"]
    /\ UNCHANGED <<twin, bookings, entries, vehicles, langraph>>

\* persist_node: mark_booking_assigned(plate, slot_id)
BPersist(p) ==
    /\ At(p, "b_persist")
    /\ bookings' = b_mark_booking_assigned(proc[p].plate, proc[p].slot)
    /\ proc' = [proc EXCEPT ![p].pc = "b_entry_select",
                            ![p].writes = proc[p].writes \cup {"bookings"}]
    /\ UNCHANGED <<twin, entries, vehicles, langraph>>

\* backend mark_entry, the SELECT: an open entry of the plate exists: return
BMarkEntrySelect(p) ==
    /\ At(p, "b_entry_select")
    /\ IF OpenEntries(proc[p].plate) # {}
       THEN proc' = [proc EXCEPT ![p].pc = "done", ![p].status = "entered",
                                 ![p].message = "entered successfully"]
       ELSE proc' = [proc EXCEPT ![p].pc = "b_entry_insert"]
    /\ UNCHANGED <<twin, bookings, entries, vehicles, langraph>>

\* backend mark_entry, the INSERT (autocommit, a statement of its own)
BMarkEntryInsert(p) ==
    /\ At(p, "b_entry_insert")
    /\ LET q == proc[p] IN
       /\ entries' = Append(entries, EntryRec(q.plate, q.model, q.size, q.slot, q.price))
       /\ proc' = [proc EXCEPT ![p].pc = "done", ![p].status = "entered",
                               ![p].message = "entered successfully",
                               ![p].writes = q.writes \cup {"entries"}]
    /\ UNCHANGED <<twin, bookings, vehicles, langraph>>

\* backend mark_exit(plate), the first UPDATE: every open entry of the plate
\* gets an exit time
MarkExitEntries(p) ==
    /\ At(p, "idle")
    /\ \E plate \in Plates :
          /\ entries' = [i \in DOMAIN entries |->
                            IF i \in OpenEntries(plate)
                            THEN [entries[i] EXCEPT !.exited = TRUE]
                            ELSE entries[i]]
          /\ proc' = [proc EXCEPT ![p] =
                         [IdleProc EXCEPT !.pc = "exit_booking", !.plate = plate,
                                          !.writes = {"entries"}]]
    /\ UNCHANGED <<twin, bookings, vehicles, langraph>>

\* backend mark_exit(plate), the second UPDATE (autocommit, a statement of
\* its own): the booking of the plate, if any, gets status exited
MarkExitBooking(p) ==
    /\ At(p, "exit_booking")
    /\ bookings' = IF bookings[proc[p].plate] = NoBooking
                   THEN bookings
                   ELSE [bookings EXCEPT ![proc[p].plate].status = "exited"]
    /\ proc' = [proc EXCEPT ![p].pc = "done",
                            ![p].writes = proc[p].writes \cup {"bookings"}]
    /\ UNCHANGED <<twin, entries, vehicles, langraph>>

\* str(e) of a failed ledger statement
LedgerError == "database is locked"

\* "Graph execution error: " + str(e)
GraphError == "Graph execution error"

\* The collaborators the nodes before persist call: an exception there leaves
\* graph.invoke.  (The llm call is inside try/except in llm_select_slot.)
GraphCalls(pc) ==
    CASE pc = "b_reservation" -> {"ledger"}
      [] pc = "b_slot" -> {"inventory"}
      [] pc = "b_mark" -> {"inventory"}
      [] pc = "b_pricing" -> {"inventory", "ledger"}
      [] OTHER -> {}

\* A collaborator call of reservation_node, slot_node or pricing_node raises:
\* entry_recognition_agent catches it around entry_graph.invoke and returns
\* {status: error, plate, message}
BRaise(p) ==
    /\ \E c \in GraphCalls(proc[p].pc) :
          proc' = [proc EXCEPT ![p].pc = "done", ![p].status = "error",
                               ![p].message = GraphError, ![p].fault = c,
                               ![p].dt = <<>>]
    /\ UNCHANGED <<twin, bookings, entries, vehicles, langraph>>

\* persist_node, except Exception: a statement of mark_booking_assigned or of
\* mark_entry raises; the node returns {**state, status: error, message: str(e)}
BPersistFails(p) ==
    /\ proc[p].pc \in {"b_persist", "b_entry_select", "b_entry_insert"}
    /\ proc' = [proc EXCEPT ![p].pc = "done", ![p].status = "error",
                            ![p].message = LedgerError, ![p].fault = "persist"]
    /\ UNCHANGED <<twin, bookings, entries, vehicles, langraph>>

-----------------------------------------------------------------------------
(* The pricing functions called on their own.  args is <<occupied, number of *)
(* slot records, base_price, elasticity>>: what the function reads from the  *)
(* ledger and the inventory, and its two parameters.                         *)

\* PRICE_ELASTICITY values of a root deployment, in hundredths
Elasticities == {ELASTICITY, B_ELASTICITY, 300}

\* dynamic_pricing_agent(base_price, elasticity)
CallDynamicPricingAgent(p) ==
    /\ At(p, "call_dynamic_pricing_agent")
    /\ LET a == proc[p].args IN
       proc' = [proc EXCEPT ![p].price = SymmetricPrice(a[1], a[2], a[3], a[4]),
                            ![p].tier = "dynamic_pricing_agent", ![p].pc = "done"]
    /\ UNCHANGED <<twin, bookings, entries, vehicles, langraph>>

\* pricing(): BASE_PRICE and ELASTICITY are the module's constants
CallPricing(p) ==
    /\ At(p, "call_pricing")
    /\ LET a == proc[p].args IN
       proc' = [proc EXCEPT ![p].price = SurgePrice(a[1], a[2], BASE_PRICE, B_ELASTICITY),
                            ![p].tier = "pricing", ![p].pc = "done"]
    /\ UNCHANGED <<twin, bookings, entries, vehicles, langraph>>

-----------------------------------------------------------------------------
(* From a detection to the admission attempt.  A text is a sequence of       *)
(* characters; args is <<text>> before the step and <<text, plate>> after it. *)

\* a lower-case letter, an upper-case letter, a digit, a character that is
\* neither
TextChars == {"a", "B", "7", "-"}

Texts == UNION {[1 .. n -> TextChars] : n \in 0 .. MaxText}

\* str.upper(), character by character
str_upper(text) == [i \in DOMAIN text |-> IF text[i] = "a" THEN "A" ELSE text[i]]

\* c.isalnum()
isalnum(c) == c \in {"a", "A", "B", "7"}

\* run_easyocr: the letters and digits of the text read
run_easyocr(text) == FilterSeq(text, {c \in Range(text) : isalnum(c)})

\* normalize_plate: "".join(c for c in text.upper() if c.isalnum())
normalize_plate(text) ==
    LET up == str_upper(text) IN FilterSeq(up, {c \in Range(up) : isalnum(c)})

\* len(plate) >= 4 of the backend vision_agent_process
MinPlateLen == 4

\* vision_agent_process: if plate and len(plate) >= 4
VisionAccepts(plate) == plate # <<>> /\ Len(plate) >= MinPlateLen

\* backend detect_plate (process_video reads its frames the same way):
\* vision_agent_process on the text the reader found, then
\* entry_recognition_agent(vision) if a plate came out
DetectPlate(p) ==
    /\ At(p, "detect_plate")
    /\ LET text == proc[p].args[1]
           plate == normalize_plate(run_easyocr(text))
       IN IF VisionAccepts(plate)
          THEN proc' = [proc EXCEPT ![p].pc = "entry_recognition_agent",
                                    ![p].tier = "detect_plate",
                                    ![p].args = <<text, plate>>]
          ELSE proc' = [proc EXCEPT ![p].pc = "done", ![p].tier = "detect_plate",
                                    ![p].status = "no_plate_detected"]
    /\ UNCHANGED <<twin, bookings, entries, vehicles, langraph>>

\* root trigger_entry: 400 without a plate, else entry_recognition_agent(payload),
\* whose vision_agent_process answers payload["plate"].upper()
TriggerEntry(p) ==
    /\ At(p, "trigger_entry")
    /\ LET text == proc[p].args[1]
       IN IF text = <<>>
          THEN proc' = [proc EXCEPT ![p].pc = "done", ![p].tier = "trigger_entry",
                                    ![p].status = "error",
                                    ![p].message = "plate required"]
          ELSE proc' = [proc EXCEPT ![p].pc = "entry_recognition_agent",
                                    ![p].tier = "trigger_entry",
                                    ![p].args = <<text, str_upper(text)>>]
    /\ UNCHANGED <<twin, bookings, entries, vehicles, langraph>>

-----------------------------------------------------------------------------
(* process_video.  args is <<readings>>: vision["plate"] of each processed   *)
(* frame, in order, "" where the reader found no plate.                      *)

FrameReadings == UNION {[1 .. n -> {""} \cup Plates] : n \in 0 .. MaxFrames}

\* detected_plates: the readings of the frames in which a plate was found
detected_plates(readings) == FilterSeq(readings, Plates)

\* Counter(plate_detections)[plate]
CountOf(detections, plate) ==
    Cardinality({i \in DOMAIN detections : detections[i] = plate})

RECURSIVE CounterKeys(_, _)
\* the keys of Counter(plate_detections), in the order they were first seen
CounterKeys(detections, seen) ==
    IF detections = <<>> THEN <<>>
    ELSE IF Head(detections) \in seen THEN CounterKeys(Tail(detections), seen)
         ELSE <<Head(detections)>>
                 \o CounterKeys(Tail(detections), seen \cup {Head(detections)})

RECURSIVE MostCommon(_, _, _)
\* most_common(1): max over the items in key order, which keeps the first
\* key among those of greatest count
MostCommon(best, rest, detections) ==
    IF rest = <<>> THEN best
    ELSE IF CountOf(detections, Head(rest)) > CountOf(detections, best)
         THEN MostCommon(Head(rest), Tail(rest), detections)
         ELSE MostCommon(best, Tail(rest), detections)

\* the most frequent plate with the plate seen later preferred on equal counts
get_most_frequent_plate_LastOnTies(detections) ==
    LET first(plate) == CHOOSE i \in DOMAIN detections :
                            /\ detections[i] = plate
                            /\ \A j \in 1 .. i - 1 : detections[j] # plate
    IN CHOOSE plate \in Plates :
          /\ CountOf(detections, plate) > 0
          /\ \A other \in Plates \ {plate} :
                \/ CountOf(detections, plate) > CountOf(detections, other)
                \/ /\ CountOf(detections, plate) = CountOf(detections, other)
                   /\ first(plate) > first(other)

\* get_most_frequent_plate(plate_detections)[0] (the list is not empty)
get_most_frequent_plate(detections) ==
    LET keys == CounterKeys(detections, {})
    IN MostCommon(Head(keys), Tail(keys), detections)

\* process_video: read the frames, then entry_recognition_agent({"plate":
\* final_plate}) if any plate was detected, else status no_plates_detected
ProcessVideo(p) ==
    /\ At(p, "process_video")
    /\ LET detections == detected_plates(proc[p].args[1])
       IN IF detections # <<>>
          THEN proc' = [proc EXCEPT ![p].pc = "b_reservation",
                                    ![p].tier = "process_video",
                                    ![p].plate = get_most_frequent_plate(detections)]
          ELSE proc' = [proc EXCEPT ![p].pc = "done", ![p].tier = "process_video",
                                    ![p].status = "no_plates_detected"]
    /\ UNCHANGED <<twin, bookings, entries, vehicles, langraph>>

-----------------------------------------------------------------------------
(* Initial states *)

Slot(id, size, distance, status) ==
    [id |-> id, size |-> size, distance |-> distance, status |-> status]

\* Inventory documents the workflows start from: the scenario of one medium
\* slot at 10 m and one large slot at 5 m, and a document whose records are
\* not in id order, with two medium slots at the same distance.
Inventories ==
    { << Slot(1, "medium", 10, "free"), Slot(2, "large", 5, "free") >>,
      << Slot(2, "medium", 5, "free"), Slot(1, "medium", 5, "free"),
         Slot(3, "small", 10, "occupied") >> }

DocIds == 1 .. DocLen

\* Every inventory document of DocLen records with unique ids, in every
\* order of the records
AllDocs ==
    { [i \in DocIds |-> Slot(ids[i], sz[i], d[i], st[i])] :
        ids \in {f \in [DocIds -> DocIds] : \A i, j \in DocIds : f[i] = f[j] => i = j},
        sz \in [DocIds -> Sizes],
        d \in [DocIds -> Distances],
        st \in [DocIds -> {"free", "occupied"}] }

\* a pre-booking as the booking form creates it: pending, no slot
PreBooking(size) ==
    [model |-> "sedan", size |-> size, slot_id |-> None, status |-> "pending"]

Denied == [allowed |-> 0, note |-> "blacklisted"]

AllIdle == [p \in Procs |-> IdleProc]

InitRoot ==
    /\ twin \in Inventories
    /\ bookings \in [Plates -> {NoBooking, PreBooking("medium")}]
    /\ entries = <<>>
    /\ vehicles \in [Plates -> {NoRecord, Denied}]
    /\ langraph \in {{}, LangraphEnv}
    /\ proc = AllIdle

InitBackend ==
    /\ twin \in Inventories
    /\ bookings \in [Plates -> {NoBooking} \cup {PreBooking(size) : size \in Sizes}]
    /\ entries = <<>>
    /\ vehicles = [plate \in Plates |-> NoRecord]
    /\ langraph = {}
    /\ proc = AllIdle

\* One request about to allocate, over every inventory document: in
\* local_slot_allocate (root) or in llm_select_slot (backend)
InitAlloc ==
    /\ twin \in AllDocs
    /\ bookings = [plate \in Plates |-> NoBooking]
    /\ entries = <<>>
    /\ vehicles = [plate \in Plates |-> NoRecord]
    /\ langraph = {}
    /\ \E size \in Sizes, at \in {"local", "b_slot"} :
          proc = [AllIdle EXCEPT ![1] =
                     [IdleProc EXCEPT !.pc = at, !.plate = "ABC123", !.model = "sedan",
                                      !.size = size]]

\* One call of a pricing function, over every entry count and slot total
InitPrice ==
    /\ twin = <<>>
    /\ bookings = [plate \in Plates |-> NoBooking]
    /\ entries = <<>>
    /\ vehicles = [plate \in Plates |-> NoRecord]
    /\ langraph = {}
    /\ \E occupied \in 0 .. MaxOccupied, total \in 0 .. MaxTotal :
          \/ \E elasticity \in Elasticities :
                proc = [AllIdle EXCEPT ![1] =
                          [IdleProc EXCEPT !.pc = "call_dynamic_pricing_agent",
                                           !.args = <<occupied, total, BASE_PRICE, elasticity>>]]
          \/ proc = [AllIdle EXCEPT ![1] =
                       [IdleProc EXCEPT !.pc = "call_pricing",
                                        !.args = <<occupied, total, BASE_PRICE, B_ELASTICITY>>]]

-----------------------------------------------------------------------------
(* Specifications *)

NextRoot ==
    \E p \in Procs :
        \/ Start(p)
        \/ Reservation(p)
        \/ Security(p)
        \/ Pricing(p)
        \/ Resolve(p)
        \/ Gemini(p)
        \/ Langraph(p)
        \/ LocalLoad(p)
        \/ LocalSave(p)
        \/ Book(p)
        \/ OccupyLoad(p)
        \/ OccupySave(p)
        \/ MarkEntry(p)

NextBackend ==
    \E p \in Procs :
        \/ BStart(p)
        \/ BReservation(p)
        \/ BSlotLoad(p)
        \/ BSlotMark(p)
        \/ BPricing(p)
        \/ BPersist(p)
        \/ BMarkEntrySelect(p)
        \/ BMarkEntryInsert(p)

NextAlloc ==
    \E p \in Procs :
        \/ LocalLoad(p)
        \/ LocalSave(p)
        \/ BSlotLoad(p)
        \/ BSlotMark(p)

SpecRoot == InitRoot /\ [][NextRoot]_vars

SpecBackend == InitBackend /\ [][NextBackend]_vars

SpecAlloc == InitAlloc /\ [][NextAlloc]_vars

\* The deployments with collaborators that may fail
NextRootFault == NextRoot \/ \E p \in Procs : Raise(p)

NextBackendFault == NextBackend \/ \E p \in Procs : BRaise(p) \/ BPersistFails(p)

SpecRootFault == InitRoot /\ [][NextRootFault]_vars

SpecBackendFault == InitBackend /\ [][NextBackendFault]_vars

\* The backend deployment with exits: every request is an admission or a
\* call of mark_exit
NextBackendExit ==
    \/ NextBackend
    \/ \E p \in Procs : MarkExitEntries(p) \/ MarkExitBooking(p)

SpecBackendExit == InitBackend /\ [][NextBackendExit]_vars

\* slot_manager_allocate under every setting of the two orchestration
\* variables: walk-in requests that have passed the security check and have
\* their price, about to allocate
InitCascade ==
    /\ twin \in Inventories
    /\ bookings = [plate \in Plates |-> NoBooking]
    /\ entries = <<>>
    /\ vehicles = [plate \in Plates |-> NoRecord]
    /\ langraph \in SUBSET LangraphEnv
    /\ proc \in [Procs -> {[IdleProc EXCEPT !.pc = "resolve", !.plate = "XYZ999",
                                             !.model = "sedan", !.size = size,
                                             !.sec_note = "no record (default allow)",
                                             !.price = dynamic_pricing_agent] :
                               size \in Sizes}]

NextCascade ==
    \E p \in Procs :
        \/ Resolve(p)
        \/ Gemini(p)
        \/ Langraph(p)
        \/ LocalLoad(p)
        \/ LocalSave(p)

SpecCascade == InitCascade /\ [][NextCascade]_vars

\* The backend deployment started on a lot in which nothing is parked:
\* every slot free, no entry
InitBackendEmptyLot ==
    /\ twin \in {[i \in DOMAIN doc |-> [doc[i] EXCEPT !.status = "free"]] : doc \in Inventories}
    /\ bookings \in [Plates -> {NoBooking} \cup {PreBooking(size) : size \in Sizes}]
    /\ entries = <<>>
    /\ vehicles = [plate \in Plates |-> NoRecord]
    /\ langraph = {}
    /\ proc = AllIdle

SpecBackendEmptyLot == InitBackendEmptyLot /\ [][NextBackend]_vars

\* graph.invoke runs the node that is due: the steps of a started backend
\* request whose collaborator call returns
BackendMoves(p) ==
    \/ BReservation(p)
    \/ BSlotLoad(p)
    \/ BSlotMark(p)
    \/ BPricing(p)
    \/ BPersist(p)
    \/ BMarkEntrySelect(p)
    \/ BMarkEntryInsert(p)

\* The backend deployment with collaborator failures, every started request
\* being run on: each request has a thread of its own, and the call it is in
\* returns unless it fails
FairSpecBackendFault ==
    /\ InitBackend
    /\ [][NextBackendFault]_vars
    /\ \A p \in Procs : WF_vars(BackendMoves(p))

\* the rows the vehicles table can hold for a plate: none, or (allowed, note)
VehicleRecords ==
    {NoRecord} \cup [allowed : {0, 1, 2}, note : {"blacklisted", "", NullNote}]

\* Admissions up to the security check, over every content of the vehicles table
InitSecurity ==
    /\ twin \in Inventories
    /\ bookings = [plate \in Plates |-> NoBooking]
    /\ entries = <<>>
    /\ vehicles \in [Plates -> VehicleRecords]
    /\ langraph = {}
    /\ proc = AllIdle

NextSecurity == \E p \in Procs : Start(p) \/ Reservation(p) \/ Security(p)

SpecSecurity ==
    /\ InitSecurity
    /\ [][NextSecurity]_vars

\* Admissions whose payload has no plate, in either deployment
NextNoPlate ==
    \E p \in Procs :
        \/ StartNoPlate(p)
        \/ BStartNoPlate(p)
        \/ Reservation(p)
        \/ Security(p)
        \/ Pricing(p)
        \/ Resolve(p)
        \/ Gemini(p)
        \/ Langraph(p)
        \/ LocalLoad(p)
        \/ LocalSave(p)
        \/ Book(p)
        \/ OccupyLoad(p)
        \/ OccupySave(p)
        \/ MarkEntry(p)

SpecNoPlate == InitRoot /\ [][NextNoPlate]_vars

\* One detection, over every text and either way in
InitPlate ==
    /\ twin = <<>>
    /\ bookings = [plate \in Plates |-> NoBooking]
    /\ entries = <<>>
    /\ vehicles = [plate \in Plates |-> NoRecord]
    /\ langraph = {}
    /\ \E text \in Texts, at \in {"detect_plate", "trigger_entry"} :
          proc = [AllIdle EXCEPT ![1] = [IdleProc EXCEPT !.pc = at, !.args = <<text>>]]

NextPlate == \E p \in Procs : DetectPlate(p) \/ TriggerEntry(p)

SpecPlate == InitPlate /\ [][NextPlate]_vars

\* One video, over every sequence of readings
InitVideo ==
    /\ twin \in Inventories
    /\ bookings \in [Plates -> {NoBooking, PreBooking("medium")}]
    /\ entries = <<>>
    /\ vehicles = [plate \in Plates |-> NoRecord]
    /\ langraph = {}
    /\ \E readings \in FrameReadings :
          proc = [AllIdle EXCEPT ![1] =
                     [IdleProc EXCEPT !.pc = "process_video", !.args = <<readings>>]]

NextVideo ==
    \E p \in Procs :
        \/ ProcessVideo(p)
        \/ BReservation(p)
        \/ BSlotLoad(p)
        \/ BSlotMark(p)
        \/ BPricing(p)
        \/ BPersist(p)
        \/ BMarkEntrySelect(p)
        \/ BMarkEntryInsert(p)

SpecVideo == InitVideo /\ [][NextVideo]_vars

NextPrice == \E p \in Procs : CallDynamicPricingAgent(p) \/ CallPricing(p)

SpecPrice == InitPrice /\ [][NextPrice]_vars

-----------------------------------------------------------------------------
(* Properties *)

\* the record of document doc with id id is free / has a size that fits
FreeIn(doc, id) == \E i \in DOMAIN doc : doc[i].id = id /\ doc[i].status = "free"

FitsIn(doc, id, size) ==
    \E i \in DOMAIN doc : doc[i].id = id /\ size_rank(doc[i].size) >= size_rank(size)

\* the ids of the slots of the inventory a vehicle of this size fits in
CompatibleIds(size) ==
    {twin[i].id : i \in {j \in DOMAIN twin : size_rank(twin[j].size) >= size_rank(size)}}

\* request p is past its allocation, which the local tier decided
LocalDecided(p) ==
    /\ proc[p].tier = "local"
    /\ proc[p].pc \in {"book", "occupy", "occupy_save", "entry", "done"}

\* C1: of the admissions that ran the allocation against an inventory with a
\* single compatible slot, exactly one gets that slot and every other one
\* gets no slot: no two of them both hold a slot.
C1_ExactlyOneAllocationWins ==
    \A p, q \in Procs :
        ( /\ p # q
          /\ LocalDecided(p) /\ LocalDecided(q)
          /\ Cardinality(CompatibleIds(proc[p].size) \cup CompatibleIds(proc[q].size)) = 1 )
        => ~(proc[p].slot # None /\ proc[q].slot # None)

\* the security record of the plate of request p denies it
IsDenied(p) ==
    /\ proc[p].pc # "idle"
    /\ vehicles[proc[p].plate] # NoRecord
    /\ vehicles[proc[p].plate].allowed # 1

\* C2: a request whose plate the security check denies is, once past the
\* check, finished with outcome rejected and the denial note, has no price,
\* no slot, and has written neither the inventory, nor a booking, nor an entry.
C2_DeniedIsRejectedUntouched ==
    \A p \in Procs :
        (IsDenied(p) /\ proc[p].pc \notin {"reservation", "security"})
        => /\ proc[p].pc = "done"
           /\ proc[p].status = "rejected"
           /\ proc[p].message = vehicles[proc[p].plate].note
           /\ proc[p].price = None
           /\ proc[p].slot = None
           /\ proc[p].writes = {}

\* C2 witness: a request was rejected while another one was admitted
C2_Witness ==
    \E p, q \in Procs :
        /\ proc[p].pc = "done" /\ proc[p].status = "rejected"
        /\ proc[p].message = "blacklisted"
        /\ proc[q].pc = "done" /\ proc[q].status = "ok"

\* C3: a finished admission whose allocation yielded no slot has outcome
\* no_slot, and wrote no entry and no booking assignment.
C3_NoSlotSkipsPersist ==
    \A p \in Procs :
        ( /\ proc[p].pc = "done"
          /\ proc[p].booking # NoBooking
          /\ proc[p].slot = None )
        => /\ proc[p].status = "no_slot"
           /\ proc[p].writes = {}

\* C4: the ledger holds at most one open entry per plate.
C4_OneOpenEntryPerPlate ==
    \A plate \in Plates : Cardinality(OpenEntries(plate)) <= 1

\* C5: when two admissions of the same plate have both finished as entered,
\* each with a slot, exactly one open entry of the plate exists.
C5_ConcurrentSamePlateOneEntry ==
    \A p, q \in Procs :
        ( /\ p # q
          /\ proc[p].pc = "done" /\ proc[p].status = "entered"
          /\ proc[q].pc = "done" /\ proc[q].status = "entered"
          /\ proc[p].slot # None /\ proc[q].slot # None
          /\ proc[p].plate = proc[q].plate )
        => Cardinality(OpenEntries(proc[p].plate)) = 1

\* request p takes the step in which a remote tier accepts its candidate
RemoteAccept(p) ==
    /\ proc[p].pc \in {"gemini", "langraph"}
    /\ proc'[p].pc = "book"
    /\ proc'[p].slot # None

\* C6: a remote tier accepts a candidate only if, in the document it
\* validates against, the slot exists, is free and fits the vehicle's size.
C6_CandidateValidated ==
    [][ \A p \in Procs :
          RemoteAccept(p) =>
             /\ FreeIn(proc[p].dt, proc'[p].slot)
             /\ FitsIn(proc[p].dt, proc'[p].slot, proc[p].size) ]_vars

\* C7: when a remote tier accepts and flips a candidate, the slot is free in
\* the inventory as it is at that moment.
C7_FlipAgainstCurrentInventory ==
    [][ \A p \in Procs : RemoteAccept(p) => FreeIn(twin, proc'[p].slot) ]_vars

\* request p holds the choice of the local fallback and the document it was
\* made on
AtRootFallback(p) == proc[p].pc = "local_save"

AtBackendFallback(p) == proc[p].pc = "b_mark" /\ proc[p].tier \in {"only", "fallback"}

\* C8: the slot the local fallback chooses is free in the document it loaded
\* and compatible with the vehicle: by rank in local_slot_allocate, of the
\* same size in llm_select_slot (strict).
C8_FallbackChoosesFreeCompatible ==
    \A p \in Procs :
        /\ AtRootFallback(p) =>
              \E i \in DOMAIN proc[p].dt :
                 /\ proc[p].dt[i].id = proc[p].cand
                 /\ proc[p].dt[i].status = "free"
                 /\ size_rank(proc[p].dt[i].size) >= size_rank(proc[p].size)
        /\ AtBackendFallback(p) =>
              \E i \in DOMAIN proc[p].dt :
                 /\ proc[p].dt[i].id = proc[p].cand
                 /\ proc[p].dt[i].status = "free"
                 /\ proc[p].dt[i].size = proc[p].size

\* C8 witness: strict mode, a medium vehicle, a free medium slot at 10 m and
\* a free large slot at 5 m: the medium slot is chosen
C8_Witness ==
    \E p \in Procs :
        /\ AtBackendFallback(p)
        /\ proc[p].size = "medium"
        /\ \E i, j \in DOMAIN proc[p].dt :
              /\ proc[p].dt[i].id = proc[p].cand
              /\ proc[p].dt[i].size = "medium" /\ proc[p].dt[i].distance = 10
              /\ proc[p].dt[j].size = "large" /\ proc[p].dt[j].distance = 5
              /\ proc[p].dt[j].status = "free"

\* slot record a comes no later than b under (distance ascending, id ascending)
NotAfter(a, b) ==
    \/ a.distance < b.distance
    \/ a.distance = b.distance /\ a.id <= b.id

\* C9: the local fallback returns the eligible free slot that is least under
\* (distance ascending, id ascending), whatever the order of the records.
C9_FallbackIsLeast ==
    \A p \in Procs :
        /\ AtRootFallback(p) =>
              \A i, j \in DOMAIN proc[p].dt :
                 (proc[p].dt[i].id = proc[p].cand /\ RankEligible(proc[p].dt[j], proc[p].size))
                 => NotAfter(proc[p].dt[i], proc[p].dt[j])
        /\ (proc[p].pc = "b_mark" /\ proc[p].tier = "fallback") =>
              \A i, j \in DOMAIN proc[p].dt :
                 (proc[p].dt[i].id = proc[p].cand /\ StrictEligible(proc[p].dt[j], proc[p].size))
                 => NotAfter(proc[p].dt[i], proc[p].dt[j])

\* C10: an allocation that found an eligible free slot in the document it
\* loaded returns a slot, whatever the oracle answered.
C10_AllocatesWhateverTheOracle ==
    \A p \in Procs :
        ( /\ proc[p].tier \in {"only", "fallback", "llm"}
          /\ proc[p].pc # "b_mark" )
        => proc[p].slot # None

\* request p holds what slot_manager_allocate returned to it
CascadeReturned(p) ==
    /\ proc[p].tier \in {"gemini", "langraph", "local"}
    /\ proc[p].pc \in {"book", "occupy", "occupy_save", "entry", "done"}

\* C11: whichever tier of the cascade produced the slot slot_manager_allocate
\* returned, the slot satisfies the one size rule of the deployment (its rank
\* is at least the vehicle's): a slot is returned only when an eligible one
\* exists.
C11_OneCompatibilityRule ==
    \A p \in Procs :
        (CascadeReturned(p) /\ proc[p].slot # None)
        => FitsIn(twin, proc[p].slot, proc[p].size)

\* the outcomes of the admission workflow
Outcomes == {"no_plate", "rejected", "no_slot", "entered", "error"}

\* request p has finished and found no booking of its plate
WalkInDone(p) ==
    /\ proc[p].pc = "done"
    /\ proc[p].fault = ""
    /\ proc[p].booking = NoBooking
    /\ proc[p].status # "rejected"

\* C12: an admission of a plate without a booking is a walk-in: once finished
\* the ledger holds a booking of the plate, and the outcome is entered (or
\* no_slot, without an eligible free slot), never a refusal.
C12_WalkInAdmitted ==
    \A p \in Procs :
        WalkInDone(p)
        => /\ bookings[proc[p].plate] # NoBooking
           /\ proc[p].status \in {"entered", "no_slot"}

\* the booking request p read carries a slot
BookedSlot(p) == proc[p].booking # NoBooking /\ proc[p].booking.slot_id # None

\* C13: in every step of an admission whose booking already carries a slot,
\* the slot of the admission is the booking's (once it has one) and no other
\* slot of the inventory changes status.
C13_BookedSlotReused ==
    [][ \A p \in Procs :
          (BookedSlot(p) /\ proc'[p] # proc[p])
          => /\ proc'[p].slot \in {None, proc[p].booking.slot_id}
             /\ \A i \in DOMAIN twin :
                   twin[i].id # proc[p].booking.slot_id
                   => twin'[i].status = twin[i].status ]_vars

\* request p has finished, its allocation yielded no slot, and no other
\* request is about the same plate
NoSlotDone(p) ==
    /\ proc[p].pc = "done"
    /\ proc[p].fault = ""
    /\ proc[p].slot = None
    /\ proc[p].status \notin {"rejected", "no_booking"}
    /\ \A q \in Procs \ {p} : proc[q].plate # proc[p].plate

\* C14: after an admission whose allocation yielded no slot, the booking of
\* the plate is pending and carries no slot.
C14_NoSlotLeavesBookingPending ==
    \A p \in Procs :
        NoSlotDone(p)
        => /\ bookings[proc[p].plate] # NoBooking
           /\ bookings[proc[p].plate].status = "pending"
           /\ bookings[proc[p].plate].slot_id = None

\* request p returned the successful outcome (entered; ok in the root
\* deployment) with a slot
Succeeded(p) ==
    /\ proc[p].pc = "done"
    /\ proc[p].status \in {"entered", "ok"}
    /\ proc[p].slot # None

\* C15: when an admission returns the successful outcome, its slot is a slot
\* of the inventory with status occupied, the plate has an open entry with
\* that slot and the returned price, and the result carries plate, model,
\* size, slot and price.
C15_EnteredIsConsistent ==
    \A p \in Procs :
        Succeeded(p)
        => /\ \E i \in DOMAIN twin :
                 twin[i].id = proc[p].slot /\ twin[i].status = "occupied"
           /\ \E e \in OpenEntries(proc[p].plate) :
                 entries[e].slot_id = proc[p].slot /\ entries[e].price = proc[p].price
           /\ proc[p].plate # "" /\ proc[p].model # "" /\ proc[p].size # ""
           /\ proc[p].price # None

\* C16: the states of an admission run in the order ReservationLookup,
\* SecurityVerify, PriceCompute, SlotResolve, Persist: a price is computed
\* only after the security check, and a slot is allocated (the inventory
\* written) only after the price is computed.
C16_FixedStateOrder ==
    \A p \in Procs :
        /\ proc[p].price # None => proc[p].sec_note # ""
        /\ (proc[p].slot # None \/ "twin" \in proc[p].writes) => proc[p].price # None

\* the slot request p chose is free again, or an open entry records it
RolledBackOrEntered(p) ==
    \/ FreeIn(twin, proc[p].slot)
    \/ \E e \in DOMAIN entries : ~entries[e].exited /\ entries[e].slot_id = proc[p].slot

\* C17: an admission whose ledger write failed in Persist returns outcome
\* error with the underlying message, and the slot it chose is rolled back:
\* it is not left occupied or reserved without an entry.
C17_PersistFailureRollsBack ==
    \A p \in Procs :
        ( /\ proc[p].pc = "done"
          /\ proc[p].fault = "persist"
          /\ proc[p].slot # None )
        => /\ proc[p].status = "error"
           /\ proc[p].message = LedgerError
           /\ RolledBackOrEntered(p)

\* C18: a request in which a collaborator call raised returns one of the
\* outcomes: no exception leaves entry_recognition_agent.
C18_NoExceptionEscapes ==
    \A p \in Procs :
        proc[p].fault # "" => proc[p].status \in Outcomes

\* C19: the status of every result entry_recognition_agent returns is one of
\* no_plate, rejected, no_slot, entered, error.
C19_StatusIsAnOutcome ==
    \A p \in Procs :
        (proc[p].pc = "done" /\ proc[p].status # Escaped)
        => proc[p].status \in Outcomes

\* C20: no write of the inventory by an admission moves a slot from occupied
\* or reserved back to free.
C20_NeverBackToFree ==
    [][ \A i \in DOMAIN twin :
          twin[i].status \in {"occupied", "reserved (incoming)"}
          => twin'[i].status # "free" ]_vars

\* request p called a pricing function on its own and holds the result
PriceReturned(p) == proc[p].pc = "done" /\ proc[p].args # <<>>

\* the slot total a pricing function divides by: len(slots) or 1
Total(p) == IF proc[p].args[2] = 0 THEN 1 ELSE proc[p].args[2]

\* the occupancy ratio of the call of request p is at most / above the target 0.5
AtOrBelowTarget(p) == 2 * proc[p].args[1] <= Total(p)

AboveTarget(p) == 2 * proc[p].args[1] > Total(p)

\* the result of request p is at least that of the same function on every
\* lower entry count
NotBelowLowerCounts(p) ==
    \A o \in 0 .. proc[p].args[1] :
        IF proc[p].tier = "pricing"
        THEN SurgePrice(o, proc[p].args[2], proc[p].args[3], proc[p].args[4]) <= proc[p].price
        ELSE o <= proc[p].args[1] /\ 2 * o > Total(p)
             => SymmetricPrice(o, proc[p].args[2], proc[p].args[3], proc[p].args[4])
                   <= proc[p].price

\* C23 as stated: whichever price function is called, the price is exactly
\* basePrice when the ratio is at or below the target, and above the target
\* it is non-decreasing in the ratio.
C23_BasePriceAtOrBelowTarget ==
    \A p \in Procs :
        PriceReturned(p)
        => /\ AtOrBelowTarget(p) => proc[p].price = 100 * proc[p].args[3]
           /\ AboveTarget(p) => NotBelowLowerCounts(p)

\* C23 amended: pricing() (the non-negative-delta variant) returns exactly
\* basePrice at or below the target and is non-decreasing above it;
\* dynamic_pricing_agent (the symmetric variant) returns exactly basePrice at
\* the target ratio and is non-decreasing above it.
C23_Amended ==
    \A p \in Procs :
        PriceReturned(p)
        => /\ (proc[p].tier = "pricing" /\ AtOrBelowTarget(p))
                 => proc[p].price = 100 * proc[p].args[3]
           /\ (proc[p].tier = "dynamic_pricing_agent" /\ 2 * proc[p].args[1] = Total(p))
                 => proc[p].price = 100 * proc[p].args[3]
           /\ AboveTarget(p) => NotBelowLowerCounts(p)

\* C23 witness: pricing() with 3 open entries and 10 slots returned basePrice
C23_Witness ==
    \E p \in Procs :
        /\ PriceReturned(p) /\ proc[p].tier = "pricing"
        /\ proc[p].args[1] = 3 /\ proc[p].args[2] = 10
        /\ proc[p].price = 100 * BASE_PRICE

\* C24: whatever the entry count and the slot total, the price is at most
\* basePrice * (1 + elasticity * (1 - 0.5)): the ratio is clamped to [0,1].
C24_PriceAtMostAtFullOccupancy ==
    \A p \in Procs :
        PriceReturned(p)
        => 2 * proc[p].price <= 200 * proc[p].args[3] + proc[p].args[3] * proc[p].args[4]

\* 100 * basePrice * (1 + elasticity * (ratio - 0.5)), in cents, times 2 * Total
ExactTimesDen(p) ==
    200 * proc[p].args[3] * Total(p)
      + proc[p].args[3] * proc[p].args[4] * (2 * proc[p].args[1] - Total(p))

C21_SlotStatusLifecycle ==
    [][ \A i \in DOMAIN twin :
          /\ twin'[i].status \in {"free", "reserved", "occupied"}
          /\ twin[i].status = "free" => twin'[i].status \in {"free", "reserved"}
          /\ twin[i].status = "reserved" => twin'[i].status \in {"reserved", "occupied"}
          /\ twin[i].status = "occupied" => twin'[i].status = "occupied" ]_vars

\* C22: after an admission that returned the successful outcome, the booking
\* of the plate exists, carries the admitted slot and has status assigned or
\* entered, never pending.
C22_BookingFollowsAdmission ==
    \A p \in Procs :
        Succeeded(p)
        => /\ bookings[proc[p].plate] # NoBooking
           /\ bookings[proc[p].plate].slot_id = proc[p].slot
           /\ bookings[proc[p].plate].status \in {"assigned", "entered"}

\* C25: the price function is total: the pricing step of an admission never
\* raises, and the price it yields is strictly positive.
C25_PricingIsTotal ==
    [][ \A p \in Procs :
          proc[p].pc \in {"pricing", "b_pricing"}
          => /\ proc'[p].fault = ""
             /\ proc'[p].pc # proc[p].pc => proc'[p].price > 0 ]_vars

\* C27: an admission whose payload has no plate ends with outcome no_plate
\* at once and admits nothing: it reads no booking, computes no price, takes
\* no slot and writes nothing.
C27_NoPlateAdmitsNothing ==
    \A p \in Procs :
        proc[p].no_plate
        => /\ proc[p].pc = "done"
           /\ proc[p].status = "no_plate"
           /\ proc[p].booking = NoBooking
           /\ proc[p].price = None
           /\ proc[p].slot = None
           /\ proc[p].writes = {}

\* request p has had its security check
Checked(p) == proc[p].pc \notin {"idle", "reservation", "security"}

\* C28: the security check lets a plate without a record pass (default
\* allow), and turns a plate away exactly when the vehicles table holds a
\* record for it whose allowed is not 1; the note it answers is the note of
\* that record (the empty text for a NULL note).
C28_DefaultAllowDenyByRecord ==
    \A p \in Procs :
        Checked(p)
        => LET r == vehicles[proc[p].plate]
           IN /\ r = NoRecord
                 => /\ proc[p].status # "rejected"
                    /\ proc[p].sec_note = "no record (default allow)"
              /\ proc[p].status = "rejected" <=> (r # NoRecord /\ r.allowed # 1)
              /\ (r # NoRecord /\ r.note # NullNote) => proc[p].sec_note = r.note
              /\ (r # NoRecord /\ r.note = NullNote) => proc[p].sec_note = ""
              /\ proc[p].status = "rejected" => proc[p].message = proc[p].sec_note

\* C28 witness: one plate without a record passed the check while another,
\* recorded with allowed = 2, was turned away with the note of its record
C28_Witness ==
    \E p, q \in Procs :
        /\ Checked(p) /\ vehicles[proc[p].plate] = NoRecord
        /\ proc[p].pc = "pricing"
        /\ Checked(q) /\ vehicles[proc[q].plate] = [allowed |-> 2, note |-> "blacklisted"]
        /\ proc[q].status = "rejected" /\ proc[q].message = "blacklisted"

\* request p finishes as a successful admission in this step
FinishesEntered(p) ==
    /\ proc[p].pc # "done"
    /\ proc'[p].pc = "done"
    /\ proc'[p].status = "entered"

\* request p records the exit of a plate that is parked in this step
ExitsParked(p) ==
    /\ proc[p].pc = "idle"
    /\ proc'[p].pc = "exit_booking"
    /\ OpenEntries(proc'[p].plate) # {}

\* C29: the occupancy count is the number of entries with no exit recorded:
\* the step in which an admission succeeds raises it by one, and the step
\* that records the exit of a parked plate lowers it by one.
C29_OccupancyFollowsAdmissionsAndExits ==
    [][ \A p \in Procs :
          /\ FinishesEntered(p) => b_get_occupancy_counts' = b_get_occupancy_counts + 1
          /\ ExitsParked(p) => b_get_occupancy_counts' = b_get_occupancy_counts - 1 ]_vars

\* both orchestration variables are set
KeyAndUrl == "LANGRAPH_API_KEY" \in langraph /\ "LANGRAPH_API_URL" \in langraph

\* C30: a request is at the orchestration tier only when the key and the URL
\* are both configured; with either one absent, a request whose oracle tier
\* yields no slot goes on to the local fallback directly.
C30_OrchestrationOnlyWhenConfigured ==
    [][ \A p \in Procs :
          /\ proc'[p].pc = "langraph" => KeyAndUrl
          /\ proc'[p].tier = "langraph" => KeyAndUrl
          /\ (proc[p].pc = "gemini" /\ proc'[p].pc \notin {"gemini", "book"} /\ ~KeyAndUrl)
             => proc'[p].pc = "local" ]_vars

\* C30 witness: with the key set and the URL missing, a request whose oracle
\* tier failed stands at the local fallback
C30_Witness ==
    /\ langraph = {"LANGRAPH_API_KEY"}
    /\ \E p \in Procs : proc[p].pc = "local" /\ proc[p].slot = None

\* a slot of size slot_size may host a vehicle of size vehicle_size:
\* rank(slot) >= rank(vehicle) with small = 1, medium = 2, large = 3
Hosts(slot_size, vehicle_size) ==
    <<slot_size, vehicle_size>> \in
        { <<"small", "small">>, <<"medium", "small">>, <<"large", "small">>,
          <<"medium", "medium">>, <<"large", "medium">>, <<"large", "large">> }

\* the free records of the inventory that may host a vehicle of this size
FreeHosts(size) ==
    {i \in DOMAIN twin : twin[i].status = "free" /\ Hosts(twin[i].size, size)}

\* C31: local_slot_allocate chooses among exactly the free slots whose rank
\* is at least the vehicle's: what it chooses is such a slot, it returns
\* nothing only when there is none, so a small vehicle gets a free large slot
\* when nothing smaller is free and a large vehicle never gets a small or
\* medium slot.
C31_HierarchicalEligibility ==
    [][ \A p \in Procs :
          proc[p].pc = "local"
          => /\ proc'[p].pc = "local_save"
                => \E i \in FreeHosts(proc[p].size) : twin[i].id = proc'[p].cand
             /\ proc'[p].pc = "book" => FreeHosts(proc[p].size) = {}
             /\ FreeHosts(proc[p].size) # {} => proc'[p].pc = "local_save"
             /\ (proc[p].size = "large" /\ proc'[p].pc = "local_save")
                => \A i \in DOMAIN twin :
                      twin[i].id = proc'[p].cand => twin[i].size = "large" ]_vars

\* C31 witness: a small vehicle stands with a large slot chosen, from a
\* document in which no small or medium slot was free
C31_Witness ==
    \E p \in Procs :
        /\ proc[p].pc = "local_save"
        /\ proc[p].size = "small"
        /\ \E i \in DOMAIN proc[p].dt :
              proc[p].dt[i].id = proc[p].cand /\ proc[p].dt[i].size = "large"
        /\ \A i \in DOMAIN proc[p].dt :
              proc[p].dt[i].size # "large" => proc[p].dt[i].status # "free"

\* C32: no two open entries of different plates reference the same slot.
C32_NoSlotSharedByTwoPlates ==
    \A i, j \in DOMAIN entries :
        ( /\ ~entries[i].exited /\ ~entries[j].exited
          /\ entries[i].plate # entries[j].plate
          /\ entries[i].slot_id # None )
        => entries[i].slot_id # entries[j].slot_id

\* no admission is under way
Quiescent == \A p \in Procs : proc[p].pc \in {"idle", "done"}

\* the slot records that are occupied or reserved
HeldSlots == {i \in DOMAIN twin : twin[i].status # "free"}

\* request p ended as entered with its entry suppressed as a duplicate
Readmitted(p) ==
    /\ proc[p].pc = "done"
    /\ proc[p].status = "entered"
    /\ "entries" \notin proc[p].writes

\* C33: whenever no admission is under way, as many slots are occupied or
\* reserved as there are open entries; an admission of a plate that already
\* has an open entry, whose entry is suppressed, took no slot of its own and
\* left the booking on the slot of the open entry.
C33_HeldSlotsMatchOpenEntries ==
    /\ Quiescent => Cardinality(HeldSlots) = b_get_occupancy_counts
    /\ \A p \in Procs :
          Readmitted(p)
          => /\ "twin" \notin proc[p].writes
             /\ \A i \in OpenEntries(proc[p].plate) :
                   bookings[proc[p].plate].slot_id = entries[i].slot_id

\* request p has ended successfully with a slot
EndedWithSlot(p) ==
    /\ proc[p].pc = "done"
    /\ proc[p].status \in {"ok", "entered"}
    /\ proc[p].slot # None

\* the inventory records slot id as not free
NonFree(id) == \E i \in DOMAIN twin : twin[i].id = id /\ twin[i].status # "free"

\* C34: when two admissions of different plates have both ended successfully
\* with different slots, both slots are non-free in the inventory.
C34_NoLostSlotUpdate ==
    \A p, q \in Procs :
        ( /\ EndedWithSlot(p) /\ EndedWithSlot(q)
          /\ proc[p].plate # proc[q].plate
          /\ proc[p].slot # proc[q].slot )
        => NonFree(proc[p].slot) /\ NonFree(proc[q].slot)

\* the workflow node a request is in (0: not started, 5: ended)
NodeOf(pc) ==
    CASE pc = "idle" -> 0
      [] pc = "b_reservation" -> 1
      [] pc \in {"b_slot", "b_mark"} -> 2
      [] pc = "b_pricing" -> 3
      [] pc \in {"b_persist", "b_entry_select", "b_entry_insert"} -> 4
      [] OTHER -> 5

\* C35: every started admission reaches a terminal outcome, and a step that
\* takes it to another node takes it forward: reservation, slot, pricing and
\* persist are each entered at most once.
C35_AdmissionTerminates ==
    /\ \A p \in Procs : (proc[p].pc # "idle") ~> (proc[p].pc = "done")
    /\ [][ \A p \in Procs :
             /\ NodeOf(proc'[p].pc) >= NodeOf(proc[p].pc)
             /\ proc[p].pc = "done" => proc'[p].pc = "done" ]_vars

\* C35 witness: one admission ended entered after all four nodes while
\* another ended on a failed collaborator call
C35_Witness ==
    \E p, q \in Procs :
        /\ proc[p].pc = "done" /\ proc[p].status = "entered"
        /\ "entries" \in proc[p].writes
        /\ proc[q].pc = "done" /\ proc[q].fault # ""

\* an upper-case alphanumeric text of at least four characters
ValidPlate(plate) ==
    /\ Len(plate) >= 4
    /\ \A i \in DOMAIN plate : plate[i] \in {"A", "B", "7"}

\* C36: the plate entry_recognition_agent is called with is upper-case
\* alphanumeric with at least four characters; a shorter or empty detection
\* gives no call.
C36_OnlyValidPlatesAdmitted ==
    \A p \in Procs :
        proc[p].pc = "entry_recognition_agent" => ValidPlate(proc[p].args[2])

\* how often plate was read, and the first frame it was read in
Readings(readings, plate) == {i \in DOMAIN readings : readings[i] = plate}

FirstReading(readings, plate) ==
    CHOOSE i \in Readings(readings, plate) : \A j \in Readings(readings, plate) : i <= j

\* plate has the highest count among the plates read; on equal counts it is
\* the one read first
Winner(readings, plate) ==
    /\ Readings(readings, plate) # {}
    /\ \A other \in Plates \ {plate} :
          \/ Cardinality(Readings(readings, plate)) > Cardinality(Readings(readings, other))
          \/ /\ Cardinality(Readings(readings, plate)) = Cardinality(Readings(readings, other))
             /\ FirstReading(readings, plate) < FirstReading(readings, other)

\* C37: process_video starts one admission, for the plate read most often
\* (on equal counts the one read first), when a plate was read in some frame,
\* and none when no plate was read; the admission of a video is never
\* started a second time.
C37_OneAttemptForMostFrequentPlate ==
    [][ \A p \in Procs :
          /\ proc[p].pc = "process_video"
             => LET readings == proc[p].args[1] IN
                IF \E i \in DOMAIN readings : readings[i] # ""
                THEN /\ proc'[p].pc = "b_reservation"
                     /\ Winner(readings, proc'[p].plate)
                ELSE /\ proc'[p].pc = "done"
                     /\ proc'[p].status = "no_plates_detected"
                     /\ proc'[p].plate = ""
          /\ proc[p].pc # "process_video" => proc'[p].pc # "b_reservation" ]_vars

\* C37 witness: two plates read once each, with a frame without a plate in
\* between: the admission runs for the plate read first
C37_Witness ==
    \E p \in Procs :
        /\ proc[p].tier = "process_video"
        /\ proc[p].args = << <<"XYZ999", "", "ABC123">> >>
        /\ proc[p].plate = "XYZ999"
        /\ proc[p].pc = "done"

====
